---- MODULE Spec2Model ----
(***************************************************************************)
(* ClearCheck approval dashboard (src/appp.py).                            *)
(*                                                                         *)
(* The script is a Streamlit page: the table is loaded once, and every     *)
(* change of a sidebar widget re-runs the whole script from the filter to  *)
(* the last tab.  One action per widget; each action is the whole re-run.  *)
(*                                                                         *)
(* Time is counted in ticks, TicksPerDay ticks to a day; day 0 is          *)
(* 2020-05-31 (a Sunday), so the policy cutoff 2020-06-01 is day 1.        *)
(* Durations are whole seconds.  A displayed number that the code rounds   *)
(* to two decimals is kept in hundredths; an unrounded rate is kept as a   *)
(* fraction num/den.                                                       *)
(***************************************************************************)
EXTENDS Integers, Sequences, FiniteSets, TLC

VARIABLES df, tech, date_range, fast_threshold, clip_sec, bins_n,
          d, kpi, hist, rates, d_block, block, weekday_counts, worst,
          monthly, summary

vars == <<df, tech, date_range, fast_threshold, clip_sec, bins_n,
          d, kpi, hist, rates, d_block, block, weekday_counts, worst,
          monthly, summary>>

---------------------------------------------------------------------------
(* Bounds of the model *)

MaxRows == 2
MaxDay == 2
TicksPerDay == 2
BigExtra == 1

(* Constants of the program *)

CutoffDay == 1
HEAD_N == 50
GAP_LIMIT_MIN == 10
SEC_PER_MIN == 60
SAME_MINUTE_SEC == 60
FAST_10S == 10
DefaultFastThreshold == 10
DefaultClipSec == 600
DefaultBinsN == 50

TechnicianOptions == <<"Arnold", "Mendez", "Shawn">>
thresholds == <<2, 5, 10, 30, 60>>
weekday_order == <<"Monday", "Tuesday", "Wednesday", "Thursday", "Friday",
                   "Saturday", "Sunday">>

(* Widget values the model moves the sliders to *)
FastThresholdChoices == {1, DefaultFastThreshold}
ClipChoices == {60, DefaultClipSec}
BinsChoices == {20, DefaultBinsN}

(* Missing values of the CSV: an unparseable date, an absent duration *)
NaT == -1
NaNDuration == -1000

---------------------------------------------------------------------------
(* Displayed values *)

Num(h) == [tag |-> "num", hundredths |-> h]
NaN == [tag |-> "nan", hundredths |-> 0]
NA == [tag |-> "N/A", hundredths |-> 0]

Warning(msg) == [kind |-> "warning", msg |-> msg, value |-> <<>>]
Shown(v) == [kind |-> "shown", msg |-> "", value |-> v]

(* round(num/den, 2): nearest hundredth, ties to even *)
Round2(num, den) ==
  LET q == (100 * num) \div den
      r == (100 * num) % den
  IN  Num(IF 2 * r < den THEN q
          ELSE IF 2 * r > den THEN q + 1
          ELSE IF q % 2 = 0 THEN q ELSE q + 1)

---------------------------------------------------------------------------
(* Sequence helpers *)

Range(s) == {s[i] : i \in 1..Len(s)}

RECURSIVE SumRange(_, _, _)
SumRange(s, lo, hi) ==
  IF lo > hi THEN 0
  ELSE IF lo = hi THEN s[lo]
  ELSE SumRange(s, lo, (lo + hi) \div 2) + SumRange(s, (lo + hi) \div 2 + 1, hi)

SumSeq(s) == SumRange(s, 1, Len(s))

Column(frame, col) == [i \in 1..Len(frame) |-> frame[i][col]]

RECURSIVE Perms(_)
Perms(S) ==
  IF S = {} THEN {<<>>}
  ELSE UNION {{<<x>> \o p : p \in Perms(S \ {x})} : x \in S}

(* Ascending values of a numeric column, as Series.median sorts them: the  *)
(* value at place k is the one with k - 1 values before it                 *)
SortedValues(s) ==
  LET place == [i \in 1..Len(s) |->
                  Cardinality({j \in 1..Len(s) :
                                 s[j] < s[i] \/ (s[j] = s[i] /\ j < i)}) + 1]
  IN  [k \in 1..Len(s) |-> s[CHOOSE i \in 1..Len(s) : place[i] = k]]

(* The members of a set of numbers, ascending *)
AscendingSeq(S) ==
  LET place == [x \in S |-> Cardinality({y \in S : y < x}) + 1]
  IN  [k \in 1..Cardinality(S) |-> CHOOSE x \in S : place[x] = k]

---------------------------------------------------------------------------
(* Calendar *)

to_datetime(day) == day * TicksPerDay
date(ts) == ts \div TicksPerDay
hour(ts) == ((ts % TicksPerDay) * 24) \div TicksPerDay
day_name(ts) == weekday_order[((date(ts) + 6) % 7) + 1]
MonthStart(ts) ==
  LET dy == date(ts)
  IN  IF dy < 1 THEN -30 ELSE IF dy < 31 THEN 1 ELSE 31
month_name(ts) ==
  LET m == MonthStart(ts)
  IN  IF m = -30 THEN "May" ELSE IF m = 1 THEN "June" ELSE "July"

cutoff == to_datetime(CutoffDay)

---------------------------------------------------------------------------
(* Series statistics, as pandas computes them: NaN over no values *)

(* a mean that reports 0 over no values *)
SeriesMeanZeroOnEmpty(s) ==
  IF Len(s) = 0 THEN Num(0) ELSE Round2(SumSeq(s), Len(s))

SeriesMean(s) ==
  IF Len(s) = 0 THEN NaN ELSE Round2(SumSeq(s), Len(s))

SeriesMedian(s) ==
  IF Len(s) = 0 THEN NaN
  ELSE LET v == SortedValues(s)
           n == Len(s)
       IN  IF n % 2 = 1 THEN Round2(v[(n + 1) \div 2], 1)
           ELSE Round2(v[n \div 2] + v[n \div 2 + 1], 2)

(* round((s < t).mean() * 100, 2) *)
PctBelow(s, t) ==
  IF Len(s) = 0 THEN NaN
  ELSE Round2(100 * Cardinality({i \in 1..Len(s) : s[i] < t}), Len(s))

---------------------------------------------------------------------------
(* load_data: the CSV rows that survive loading, with their index labels   *)
(* and the time features                                                   *)

read_csv(csv) ==
  [i \in 1..Len(csv) |->
     [idx |-> i - 1,
      TECHNICIAN |-> csv[i].TECHNICIAN,
      APPROVAL_DATE |-> csv[i].APPROVAL_DATE,
      CASE_NUMBER |-> csv[i].CASE_NUMBER,
      DURATION_SEC |-> csv[i].DURATION_SEC]]

KeepRow(r) ==
  /\ r.APPROVAL_DATE # NaT
  /\ r.DURATION_SEC # NaNDuration
  /\ r.DURATION_SEC >= 0

TimeFeatures(r) ==
  [idx |-> r.idx,
   TECHNICIAN |-> r.TECHNICIAN,
   APPROVAL_DATE |-> r.APPROVAL_DATE,
   CASE_NUMBER |-> r.CASE_NUMBER,
   DURATION_SEC |-> r.DURATION_SEC,
   DATE |-> date(r.APPROVAL_DATE),
   WEEKDAY |-> day_name(r.APPROVAL_DATE),
   MONTHNAME |-> month_name(r.APPROVAL_DATE),
   HOUR_OF_DAY |-> hour(r.APPROVAL_DATE)]

load_data(csv) ==
  LET kept == SelectSeq(read_csv(csv), KeepRow)
  IN  [i \in 1..Len(kept) |-> TimeFeatures(kept[i])]

---------------------------------------------------------------------------
(* Sidebar defaults and the filter *)

min_d(frame) ==
  date(CHOOSE t \in Range(Column(frame, "APPROVAL_DATE")) :
         \A u \in Range(Column(frame, "APPROVAL_DATE")) : t <= u)
max_d(frame) ==
  date(CHOOSE t \in Range(Column(frame, "APPROVAL_DATE")) :
         \A u \in Range(Column(frame, "APPROVAL_DATE")) : t >= u)

start(dr) == to_datetime(dr[1])

(* the upper bound without the added day *)
endAtMidnight(dr) == to_datetime(dr[2])

end(dr) == to_datetime(dr[2]) + TicksPerDay

InFilter(r, t, dr) ==
  /\ r.TECHNICIAN = t
  /\ r.APPROVAL_DATE >= start(dr)
  /\ r.APPROVAL_DATE < end(dr)

FilterRows(frame, t, dr) == SelectSeq(frame, LAMBDA r : InFilter(r, t, dr))

IsFast(r, ft) == r.DURATION_SEC < ft
IsSameMinute(r) == r.DURATION_SEC < SAME_MINUTE_SEC

DerivedFields(r, ft) ==
  [idx |-> r.idx,
   TECHNICIAN |-> r.TECHNICIAN,
   APPROVAL_DATE |-> r.APPROVAL_DATE,
   CASE_NUMBER |-> r.CASE_NUMBER,
   DURATION_SEC |-> r.DURATION_SEC,
   DATE |-> r.DATE,
   WEEKDAY |-> r.WEEKDAY,
   MONTHNAME |-> r.MONTHNAME,
   HOUR_OF_DAY |-> r.HOUR_OF_DAY,
   DURATION_MIN |-> [num |-> r.DURATION_SEC, den |-> SEC_PER_MIN],
   FAST |-> IsFast(r, ft),
   SAME_SECOND |-> (r.DURATION_SEC = 0),
   SAME_MINUTE |-> IsSameMinute(r)]

Filtered(frame, t, dr, ft) ==
  LET sel == FilterRows(frame, t, dr)
  IN  [i \in 1..Len(sel) |-> DerivedFields(sel[i], ft)]

---------------------------------------------------------------------------
(* KPIs *)

BoolMean100(frame, col) ==
  IF Len(frame) = 0 THEN NaN
  ELSE Round2(100 * Cardinality({i \in 1..Len(frame) : frame[i][col]}), Len(frame))

Kpis(dd) ==
  [Approvals |-> Len(dd),
   Median |-> IF Len(dd) > 0 THEN SeriesMedian(Column(dd, "DURATION_SEC")) ELSE NA,
   PctFast |-> IF Len(dd) > 0 THEN BoolMean100(dd, "FAST") ELSE NA,
   PctSameMinute |-> IF Len(dd) > 0 THEN BoolMean100(dd, "SAME_MINUTE") ELSE NA]

---------------------------------------------------------------------------
(* Tab 1: histogram of the clipped durations over linspace(0, clip, bins)  *)

Clip(x, upper) == IF x > upper THEN upper ELSE x

(* index (from 0) of the bin of v among the bn - 1 bins between the bn     *)
(* edges k * cs / (bn - 1); the last bin is closed on the right            *)
BinOf(v, cs, bn) ==
  LET k == (v * (bn - 1)) \div cs
  IN  IF k > bn - 2 THEN bn - 2 ELSE k

HistCounts(dd, cs, bn) ==
  [k \in 1..(bn - 1) |->
     Cardinality({i \in 1..Len(dd) :
                    BinOf(Clip(dd[i].DURATION_SEC, cs), cs, bn) = k - 1})]

Tab1(dd, cs, bn) ==
  IF Len(dd) = 0 THEN Warning("No data available for the selected filters.")
  ELSE LET counts == HistCounts(dd, cs, bn)
           max_count == CHOOSE c \in Range(counts) : \A e \in Range(counts) : c >= e
           max_index == CHOOSE k \in 1..Len(counts) :
                          /\ counts[k] = max_count
                          /\ \A j \in 1..(k - 1) : counts[j] # max_count
       IN  Shown([max_count |-> max_count, max_index |-> max_index - 1,
                  n_bins |-> Len(counts)])

---------------------------------------------------------------------------
(* Tab 2: fast-rate sweep, (d.DURATION_SEC < t).mean() * 100 per threshold *)

(* a duration equal to the threshold counted as fast *)
RateInclusive(dd, t) ==
  [num |-> 100 * Cardinality({i \in 1..Len(dd) : dd[i].DURATION_SEC <= t}),
   den |-> Len(dd)]

Rate(dd, t) ==
  [num |-> 100 * Cardinality({i \in 1..Len(dd) : dd[i].DURATION_SEC < t}),
   den |-> Len(dd)]

(* the sweep without its guard *)
Tab2Unguarded(dd) == Shown([k \in 1..Len(thresholds) |-> Rate(dd, thresholds[k])])

Tab2(dd) ==
  IF Len(dd) = 0 THEN Warning("No data available.")
  ELSE Shown([k \in 1..Len(thresholds) |-> Rate(dd, thresholds[k])])

---------------------------------------------------------------------------
(* DataFrame.sort_values(by) with the default kind, quicksort, which       *)
(* pandas documents as not stable: rows come out in ascending order of     *)
(* the column, rows with equal values in any order.  The set of frames     *)
(* the call can return.                                                    *)

(* the orders of the rows whose value is one of keys[lo..hi], keys         *)
(* ascending                                                               *)
RECURSIVE SortedFrames(_, _, _, _, _)
SortedFrames(rows, by, keys, lo, hi) ==
  IF lo > hi THEN {<<>>}
  ELSE IF lo = hi THEN Perms({r \in rows : r[by] = keys[lo]})
  ELSE {p \o q : p \in SortedFrames(rows, by, keys, lo, (lo + hi) \div 2),
                 q \in SortedFrames(rows, by, keys, (lo + hi) \div 2 + 1, hi)}

sort_values(frame, by) ==
  LET keys == AscendingSeq(Range(Column(frame, by)))
  IN  SortedFrames(Range(frame), by, keys, 1, Len(keys))

---------------------------------------------------------------------------
(* Tab 3: blocks *)

(* the limit taken as exclusive *)
NewBlockStrict(r) == r.DURATION_SEC > GAP_LIMIT_MIN * SEC_PER_MIN

(* GAP_MIN >= 10 with GAP_MIN = DURATION_SEC / 60 *)
NewBlock(r) == r.DURATION_SEC >= GAP_LIMIT_MIN * SEC_PER_MIN

(* a cumulative sum that leaves the first row's own flag out *)
BlockIdSkippingFirst(sorted, i) == Cardinality({j \in 2..i : NewBlock(sorted[j])})

(* cumsum of NEW_BLOCK up to and including row i *)
BlockId(sorted, i) == Cardinality({j \in 1..i : NewBlock(sorted[j])})

WithBlocks(sorted) ==
  [i \in 1..Len(sorted) |->
     [idx |-> sorted[i].idx,
      APPROVAL_DATE |-> sorted[i].APPROVAL_DATE,
      DURATION_SEC |-> sorted[i].DURATION_SEC,
      GAP_MIN |-> [num |-> sorted[i].DURATION_SEC, den |-> SEC_PER_MIN],
      NEW_BLOCK |-> NewBlock(sorted[i]),
      BLOCK_ID |-> BlockId(sorted, i)]]

(* a grouping that lists every id from 0 to the largest, present or not *)
GroupBlocksOverIdRange(db) ==
  LET top == CHOOSE b \in Range(Column(db, "BLOCK_ID")) :
               \A c \in Range(Column(db, "BLOCK_ID")) : b >= c
      members(b) == SelectSeq(db, LAMBDA r : r.BLOCK_ID = b)
  IN  [k \in 1..(top + 1) |->
         [BLOCK_ID |-> k - 1,
          cases |-> Len(members(k - 1)),
          avg_gap |-> [num |-> SumSeq(Column(members(k - 1), "DURATION_SEC")),
                       den |-> Len(members(k - 1))],
          size |-> [num |-> Len(members(k - 1)), den |-> 1]]]

(* groupby("BLOCK_ID").agg(cases = count, avg_gap = mean), one row per id  *)
(* present, ids ascending; sizes = cases / cases.max() * 800 + 50          *)
GroupBlocks(db) ==
  LET ids == AscendingSeq(Range(Column(db, "BLOCK_ID")))
      members(b) == SelectSeq(db, LAMBDA r : r.BLOCK_ID = b)
      cases(b) == Len(members(b))
      max_cases == CHOOSE c \in {cases(b) : b \in Range(ids)} :
                     \A b \in Range(ids) : c >= cases(b)
  IN  [k \in 1..Len(ids) |->
         [BLOCK_ID |-> ids[k],
          cases |-> cases(ids[k]),
          avg_gap |-> [num |-> SumSeq(Column(members(ids[k]), "DURATION_SEC")),
                       den |-> cases(ids[k])],
          size |-> [num |-> cases(ids[k]) * 800 + 50 * max_cases,
                    den |-> max_cases]]]

Tab3Frame(dd, sorted) == IF Len(dd) = 0 THEN <<>> ELSE WithBlocks(sorted)

Tab3(dd, sorted) ==
  IF Len(dd) = 0 THEN Warning("No approvals in this filter window.")
  ELSE Shown(GroupBlocks(WithBlocks(sorted)))

---------------------------------------------------------------------------
(* Tab 4: weekday counts, reindexed over the seven names *)

Tab4(dd) ==
  IF Len(dd) = 0 THEN Warning("No data available.")
  ELSE Shown([k \in 1..Len(weekday_order) |->
                Cardinality({i \in 1..Len(dd) : dd[i].WEEKDAY = weekday_order[k]})])

---------------------------------------------------------------------------
(* Tab 5: the rows of smallest duration *)

(* one row too many *)
headOneMore(frame, n) == SubSeq(frame, 1, IF Len(frame) < n + 1 THEN Len(frame) ELSE n + 1)

head(frame, n) == SubSeq(frame, 1, IF Len(frame) < n THEN Len(frame) ELSE n)

WorstColumns(frame) ==
  [i \in 1..Len(frame) |->
     [idx |-> frame[i].idx,
      APPROVAL_DATE |-> frame[i].APPROVAL_DATE,
      CASE_NUMBER |-> frame[i].CASE_NUMBER,
      DURATION_SEC |-> frame[i].DURATION_SEC]]

Tab5(dd, sorted) ==
  IF Len(dd) = 0 THEN Warning("No data available.")
  ELSE Shown(WorstColumns(head(sorted, HEAD_N)))

---------------------------------------------------------------------------
(* Tab 6: policy change, on Arnold's rows of the loaded table *)

arn(frame) == SelectSeq(frame, LAMBDA r : r.TECHNICIAN = "Arnold")
before(frame) == SelectSeq(arn(frame), LAMBDA r : r.APPROVAL_DATE < cutoff)
after(frame) == SelectSeq(arn(frame), LAMBDA r : r.APPROVAL_DATE >= cutoff)

(* groupby("MONTH").agg(pct_fast = mean of DURATION_SEC < 10), months      *)
(* ascending                                                               *)
Monthly(frame) ==
  LET a == arn(frame)
      months == AscendingSeq({MonthStart(r.APPROVAL_DATE) : r \in Range(a)})
      of(m) == SelectSeq(a, LAMBDA r : MonthStart(r.APPROVAL_DATE) = m)
  IN  [k \in 1..Len(months) |->
         [MONTH |-> months[k],
          pct_fast |-> [num |-> Len(SelectSeq(of(months[k]),
                                              LAMBDA r : r.DURATION_SEC < FAST_10S)),
                        den |-> Len(of(months[k]))]]]

PeriodRow(name, part) ==
  [Period |-> name,
   TotalApprovals |-> Len(part),
   MeanDuration |-> SeriesMean(Column(part, "DURATION_SEC")),
   MedianDuration |-> SeriesMedian(Column(part, "DURATION_SEC")),
   PctFast |-> PctBelow(Column(part, "DURATION_SEC"), FAST_10S)]

Summary(frame) ==
  <<PeriodRow("Before Policy", before(frame)),
    PeriodRow("After Policy", after(frame))>>

(* The summary of a run: of the loaded table, whatever the filtered copy   *)
Tab6SummaryOfFiltered(frame, dd) == Summary(dd)

Tab6Summary(frame, dd) == Summary(frame)

---------------------------------------------------------------------------
(* The CSV files the model loads *)

Ts(day, tod) == day * TicksPerDay + tod

Row(t, ts, case, dur) ==
  [TECHNICIAN |-> t, APPROVAL_DATE |-> ts, CASE_NUMBER |-> case, DURATION_SEC |-> dur]

(* rows around the filter's day boundaries, the cutoff instant and the     *)
(* 600 second limit, two of them at one timestamp, one of another          *)
(* technician, and one that loading drops                                  *)
RowPool ==
  {Row("Arnold", Ts(0, 1), 101, 5),
   Row("Arnold", Ts(1, 0), 102, 600),
   Row("Arnold", Ts(1, 0), 103, 5),
   Row("Arnold", Ts(2, 1), 104, 599),
   Row("Mendez", Ts(1, 1), 105, 0),
   Row("Arnold", NaT, 106, 5)}

(* files of up to MaxRows rows of the pool, no case twice *)
SmallCsvs ==
  UNION {{csv \in [1..n -> RowPool] :
            \A i \in 1..n, j \in 1..n : i # j => csv[i] # csv[j]} : n \in 1..MaxRows}

(* the two worked examples (the second with a row of another technician),  *)
(* a file whose rows are mostly dropped by loading, and a file with more   *)
(* than HEAD_N rows of distinct timestamps and durations                   *)
ExampleBlocksCsv ==
  <<Row("Arnold", Ts(0, 0), 201, 5), Row("Arnold", Ts(0, 1), 202, 700),
    Row("Arnold", Ts(1, 0), 203, 3), Row("Arnold", Ts(1, 1), 204, 4)>>

ExampleSweepCsv ==
  <<Row("Arnold", Ts(0, 0), 301, 1), Row("Arnold", Ts(0, 1), 302, 3),
    Row("Mendez", Ts(1, 0), 306, 7),
    Row("Arnold", Ts(1, 0), 303, 8), Row("Arnold", Ts(1, 1), 304, 15),
    Row("Arnold", Ts(2, 0), 305, 50)>>

DirtyCsv ==
  <<Row("Mendez", Ts(2, 0), 501, -1), Row("Mendez", Ts(0, 0), 502, NaNDuration),
    Row("Shawn", Ts(1, 1), 503, 30), Row("Shawn", NaT, 504, 2)>>

BigCsv ==
  [i \in 1..(HEAD_N + BigExtra) |->
     Row("Arnold", i - 1, 400 + i, ((i * 7) % 53) * 20)]

Csvs == SmallCsvs \cup {ExampleBlocksCsv, ExampleSweepCsv, DirtyCsv, BigCsv}

---------------------------------------------------------------------------
(* The page.  The first state is the first run of the script with the      *)
(* sidebar at its defaults: Arnold, the table's first to last date, 10,    *)
(* 600, 50.  The loaded table is not empty (lines 35-36 take the date of   *)
(* its least and greatest timestamp), and the date input holds a start     *)
(* and an end date with start <= end.                                      *)

Init ==
  \E csv \in Csvs :
    /\ Len(load_data(csv)) > 0
    /\ df = load_data(csv)
    /\ tech = TechnicianOptions[1]
    /\ date_range = <<min_d(df), max_d(df)>>
    /\ fast_threshold = DefaultFastThreshold
    /\ clip_sec = DefaultClipSec
    /\ bins_n = DefaultBinsN
    /\ d = Filtered(df, tech, date_range, fast_threshold)
    /\ kpi = Kpis(d)
    /\ hist = Tab1(d, clip_sec, bins_n)
    /\ rates = Tab2(d)
    /\ \E by_date \in sort_values(d, "APPROVAL_DATE") :
         /\ d_block = Tab3Frame(d, by_date)
         /\ block = Tab3(d, by_date)
    /\ weekday_counts = Tab4(d)
    /\ \E by_duration \in sort_values(d, "DURATION_SEC") :
         worst = Tab5(d, by_duration)
    /\ monthly = Monthly(df)
    /\ summary = Tab6Summary(df, d)

(* A widget changed: the script runs again, top to bottom, on the cached   *)
(* table                                                                   *)
Rerun(t, dr, ft, cs, bn) ==
  /\ UNCHANGED df
  /\ tech' = t
  /\ date_range' = dr
  /\ fast_threshold' = ft
  /\ clip_sec' = cs
  /\ bins_n' = bn
  /\ d' = Filtered(df, t, dr, ft)
  /\ kpi' = Kpis(d')
  /\ hist' = Tab1(d', cs, bn)
  /\ rates' = Tab2(d')
  /\ \E by_date \in sort_values(d', "APPROVAL_DATE") :
       /\ d_block' = Tab3Frame(d', by_date)
       /\ block' = Tab3(d', by_date)
  /\ weekday_counts' = Tab4(d')
  /\ \E by_duration \in sort_values(d', "DURATION_SEC") :
       worst' = Tab5(d', by_duration)
  /\ monthly' = Monthly(df)
  /\ summary' = Tab6Summary(df, d')

DateChoices == (0..MaxDay) \cup {min_d(df), max_d(df)}

SelectTechnician ==
  \E t \in Range(TechnicianOptions) :
    /\ t # tech
    /\ Rerun(t, date_range, fast_threshold, clip_sec, bins_n)

SetDateRange ==
  \E s \in DateChoices, e \in DateChoices :
    /\ s <= e
    /\ <<s, e>> # date_range
    /\ Rerun(tech, <<s, e>>, fast_threshold, clip_sec, bins_n)

SetFastThreshold ==
  \E ft \in FastThresholdChoices :
    /\ ft # fast_threshold
    /\ Rerun(tech, date_range, ft, clip_sec, bins_n)

SetClip ==
  \E cs \in ClipChoices :
    /\ cs # clip_sec
    /\ Rerun(tech, date_range, fast_threshold, cs, bins_n)

SetBins ==
  \E bn \in BinsChoices :
    /\ bn # bins_n
    /\ Rerun(tech, date_range, fast_threshold, clip_sec, bn)

Next ==
  \/ SelectTechnician
  \/ SetDateRange
  \/ SetFastThreshold
  \/ SetClip
  \/ SetBins

Spec == Init /\ [][Next]_vars

---------------------------------------------------------------------------
(* Properties *)

BlockRows == block.value
WorstRows == worst.value
RateRows == rates.value

NonDecreasingIds ==
  \A i \in 1..(Len(d_block) - 1) : d_block[i].BLOCK_ID <= d_block[i + 1].BLOCK_ID

Chronological ==
  \A i \in 1..(Len(d_block) - 1) :
    d_block[i].APPROVAL_DATE <= d_block[i + 1].APPROVAL_DATE

C2_BlocksPartitionSubset ==
  Len(d) > 0 =>
    /\ block.kind = "shown"
    /\ \A i \in 1..Len(d) :
         Cardinality({j \in 1..Len(d_block) : d_block[j].idx = d[i].idx}) = 1
    /\ \A j \in 1..Len(d_block) :
         Cardinality({k \in 1..Len(BlockRows) :
                        BlockRows[k].BLOCK_ID = d_block[j].BLOCK_ID}) = 1
    /\ \A k \in 1..Len(BlockRows) :
         /\ BlockRows[k].cases >= 1
         /\ BlockRows[k].cases =
              Cardinality({j \in 1..Len(d_block) :
                             d_block[j].BLOCK_ID = BlockRows[k].BLOCK_ID})
    /\ SumSeq(Column(BlockRows, "cases")) = Len(d)

C2_Witness ==
  /\ Len(d) = 4
  /\ block.kind = "shown"
  /\ Len(BlockRows) = 2
  /\ d_block[1].BLOCK_ID = 0

(* C3: every record after the first has the previous record's block id     *)
(* plus one when its duration is 600 seconds or more, and the previous     *)
(* record's block id when it is less; chronological durations              *)
(* [5, 700, 3, 4] give two blocks of 1 and 3 cases.                        *)
C3_BlockIdStep ==
  Len(d) > 0 =>
    /\ \A i \in 2..Len(d_block) :
         d_block[i].BLOCK_ID =
           d_block[i - 1].BLOCK_ID + (IF d_block[i].DURATION_SEC >= 600 THEN 1 ELSE 0)
    /\ Column(d_block, "DURATION_SEC") = <<5, 700, 3, 4>> =>
         Column(BlockRows, "cases") = <<1, 3>>

C3_Witness ==
  /\ Len(d_block) = 2
  /\ d_block[2].DURATION_SEC = 600
  /\ d_block[2].BLOCK_ID = d_block[1].BLOCK_ID + 1

(* What a stable sort of the same frame would return: rows of equal value  *)
(* in the order the frame has them                                         *)
StableSorted(frame, by) ==
  LET place == [i \in 1..Len(frame) |->
                  Cardinality({j \in 1..Len(frame) :
                                 \/ frame[j][by] < frame[i][by]
                                 \/ (frame[j][by] = frame[i][by] /\ j < i)}) + 1]
  IN  [k \in 1..Len(frame) |-> frame[CHOOSE i \in 1..Len(frame) : place[i] = k]]

(* C4, as stated: the sort by timestamp is stable, records of equal        *)
(* timestamp keep their input order, so the block list of a subset is the  *)
(* one the stable order gives.                                             *)
C4_StableSortDeterminesBlocks ==
  Len(d) > 0 =>
    /\ Column(d_block, "idx") = Column(StableSorted(d, "APPROVAL_DATE"), "idx")
    /\ block = Tab3(d, StableSorted(d, "APPROVAL_DATE"))

(* C5: the filtered subset is exactly the rows of the loaded table of the  *)
(* selected technician with startOfDay(start) <= t < startOfDay(end) + 1   *)
(* day: rows dated on the end date are in, rows dated after the end date   *)
(* or before the start date are out, rows of other technicians are out.    *)
C5_FilterExact ==
  /\ \A i \in 1..Len(df) :
       (\E j \in 1..Len(d) : d[j].idx = df[i].idx)
         <=> /\ df[i].TECHNICIAN = tech
             /\ df[i].APPROVAL_DATE >= date_range[1] * TicksPerDay
             /\ df[i].APPROVAL_DATE < (date_range[2] + 1) * TicksPerDay
  /\ \A j \in 1..Len(d) :
       /\ \E i \in 1..Len(df) :
            /\ df[i].idx = d[j].idx
            /\ df[i].TECHNICIAN = d[j].TECHNICIAN
            /\ df[i].APPROVAL_DATE = d[j].APPROVAL_DATE
            /\ df[i].DURATION_SEC = d[j].DURATION_SEC
       /\ \A k \in 1..Len(d) : d[k].idx = d[j].idx => k = j
       /\ d[j].TECHNICIAN = tech
       /\ d[j].APPROVAL_DATE \div TicksPerDay >= date_range[1]
       /\ d[j].APPROVAL_DATE \div TicksPerDay <= date_range[2]
  /\ \A i \in 1..Len(df) :
       (/\ df[i].TECHNICIAN = tech
        /\ df[i].APPROVAL_DATE \div TicksPerDay = date_range[2])
         => \E j \in 1..Len(d) : d[j].idx = df[i].idx

C5_Witness ==
  /\ \E j \in 1..Len(d) :
       /\ d[j].APPROVAL_DATE \div TicksPerDay = date_range[2]
       /\ d[j].APPROVAL_DATE % TicksPerDay > 0
  /\ \E i \in 1..Len(df) :
       /\ df[i].TECHNICIAN = tech
       /\ df[i].APPROVAL_DATE \div TicksPerDay = date_range[2] + 1
  /\ \E i \in 1..Len(df) :
       /\ df[i].TECHNICIAN = tech
       /\ df[i].APPROVAL_DATE \div TicksPerDay < date_range[1]
  /\ \E i \in 1..Len(df) :
       /\ df[i].TECHNICIAN # tech
       /\ df[i].APPROVAL_DATE \div TicksPerDay = date_range[2]

TabOutput(name) ==
  CASE name = "hist" -> hist
    [] name = "rates" -> rates
    [] name = "block" -> block
    [] name = "weekday_counts" -> weekday_counts
    [] name = "worst" -> worst

(* C6: with an empty filtered subset the KPIs show 0 approvals and N/A     *)
(* for median, % fast and % same minute, and the histogram, the sweep,     *)
(* the segmenter, the weekday histogram and the worst-case table each      *)
(* show their no-data warning with nothing computed.                       *)
C6_EmptySubsetNoData ==
  Len(d) = 0 =>
    /\ kpi.Approvals = 0
    /\ kpi.Median = NA
    /\ kpi.PctFast = NA
    /\ kpi.PctSameMinute = NA
    /\ \A out \in {"hist", "rates", "block", "weekday_counts", "worst"} :
         /\ TabOutput(out).kind = "warning"
         /\ TabOutput(out).msg # ""
         /\ TabOutput(out).value = <<>>
    /\ d_block = <<>>

C6_Witness ==
  /\ Len(d) = 0
  /\ tech = "Shawn"
  /\ \E i \in 1..Len(df) : df[i].TECHNICIAN = "Arnold"
  /\ rates.kind = "warning"

ArnoldSide(k) ==
  {i \in 1..Len(df) :
     /\ df[i].TECHNICIAN = "Arnold"
     /\ IF k = 1 THEN df[i].APPROVAL_DATE < CutoffDay * TicksPerDay
                 ELSE df[i].APPROVAL_DATE >= CutoffDay * TicksPerDay}

(* C7: an empty before or after partition is reported with count 0 and     *)
(* with mean, median and percent fast undefined; a non-empty partition     *)
(* keeps its own numbers.                                                  *)
C7_EmptyPartitionUndefined ==
  \A k \in 1..2 :
    /\ summary[k].TotalApprovals = Cardinality(ArnoldSide(k))
    /\ ArnoldSide(k) = {} =>
         /\ summary[k].TotalApprovals = 0
         /\ summary[k].MeanDuration = NaN
         /\ summary[k].MedianDuration = NaN
         /\ summary[k].PctFast = NaN
    /\ ArnoldSide(k) # {} =>
         /\ summary[k].MeanDuration.tag = "num"
         /\ summary[k].MedianDuration.tag = "num"
         /\ summary[k].PctFast.tag = "num"
         /\ \E i \in ArnoldSide(k) :
              100 * df[i].DURATION_SEC <= summary[k].MeanDuration.hundredths
         /\ \E i \in ArnoldSide(k) :
              100 * df[i].DURATION_SEC >= summary[k].MeanDuration.hundredths
         /\ \E i \in ArnoldSide(k) :
              100 * df[i].DURATION_SEC <= summary[k].MedianDuration.hundredths
         /\ \E i \in ArnoldSide(k) :
              100 * df[i].DURATION_SEC >= summary[k].MedianDuration.hundredths
         /\ summary[k].PctFast.hundredths = 0
              <=> \A i \in ArnoldSide(k) : df[i].DURATION_SEC >= 10
         /\ summary[k].PctFast.hundredths = 10000
              <=> \A i \in ArnoldSide(k) : df[i].DURATION_SEC < 10

C7_Witness ==
  /\ ArnoldSide(1) = {}
  /\ ArnoldSide(2) # {}
  /\ summary[1].MeanDuration = NaN
  /\ summary[2].MeanDuration.tag = "num"

C8_Counts ==
  /\ summary[1].TotalApprovals = Cardinality(ArnoldSide(1))
  /\ summary[2].TotalApprovals = Cardinality(ArnoldSide(2))
  /\ summary[1].TotalApprovals + summary[2].TotalApprovals =
       Cardinality({i \in 1..Len(df) : df[i].TECHNICIAN = "Arnold"})

(* C8: whatever the sidebar is set to, the before/after summary is of      *)
(* Arnold's full history in the loaded table: the two counts are those of  *)
(* the rows before and from the cutoff, they add up to all of Arnold's     *)
(* rows, and a re-run after a filter change leaves the summary as it was.  *)
C8_SummaryIndependentOfFilters ==
  /\ []C8_Counts
  /\ [][summary' = summary /\ df' = df]_vars

C8_Witness ==
  /\ tech = "Mendez"
  /\ date_range[1] = date_range[2]
  /\ fast_threshold # DefaultFastThreshold
  /\ clip_sec # DefaultClipSec
  /\ bins_n # DefaultBinsN
  /\ Len(d) = 1
  /\ summary[1].TotalApprovals > 0
  /\ summary[2].TotalApprovals > 0

(* C9: on a non-empty subset of n records the worst-case table has         *)
(* min(50, n) rows, each a record of the subset, in ascending duration,    *)
(* and no record left out has a smaller duration than one listed.          *)
C9_WorstCases ==
  Len(d) > 0 =>
    /\ worst.kind = "shown"
    /\ Len(WorstRows) = (IF Len(d) < 50 THEN Len(d) ELSE 50)
    /\ \A k \in 1..Len(WorstRows) :
         /\ \E i \in 1..Len(d) :
              /\ d[i].idx = WorstRows[k].idx
              /\ d[i].APPROVAL_DATE = WorstRows[k].APPROVAL_DATE
              /\ d[i].CASE_NUMBER = WorstRows[k].CASE_NUMBER
              /\ d[i].DURATION_SEC = WorstRows[k].DURATION_SEC
         /\ \A j \in 1..Len(WorstRows) : WorstRows[j].idx = WorstRows[k].idx => j = k
    /\ \A k \in 1..(Len(WorstRows) - 1) :
         WorstRows[k].DURATION_SEC <= WorstRows[k + 1].DURATION_SEC
    /\ \A i \in 1..Len(d) :
         (\A k \in 1..Len(WorstRows) : WorstRows[k].idx # d[i].idx)
           => \A k \in 1..Len(WorstRows) :
                d[i].DURATION_SEC >= WorstRows[k].DURATION_SEC

C9_Witness ==
  /\ Len(d) > 50
  /\ worst.kind = "shown"
  /\ Len(WorstRows) = 50

(* C10: on a non-empty subset the sweep gives, for each of the thresholds  *)
(* 2, 5, 10, 30, 60, 100 times the share of records with a duration below  *)
(* it; the five rates do not decrease and lie in [0, 100]; durations       *)
(* [1, 3, 8, 15, 50] give 20, 40, 60, 80, 100.                             *)
C10_FastRateSweep ==
  Len(d) > 0 =>
    /\ rates.kind = "shown"
    /\ Len(RateRows) = 5
    /\ \A k \in 1..5 :
         /\ RateRows[k].den = Len(d)
         /\ RateRows[k].num =
              100 * Cardinality({i \in 1..Len(d) :
                                   d[i].DURATION_SEC < <<2, 5, 10, 30, 60>>[k]})
         /\ RateRows[k].num >= 0
         /\ RateRows[k].num <= 100 * RateRows[k].den
    /\ \A k \in 1..4 : RateRows[k].num <= RateRows[k + 1].num
    /\ Column(d, "DURATION_SEC") = <<1, 3, 8, 15, 50>> =>
         \A k \in 1..5 : RateRows[k].num = (20 * k) * RateRows[k].den

C10_Witness ==
  /\ Column(d, "DURATION_SEC") = <<1, 3, 8, 15, 50>>
  /\ rates.kind = "shown"
  /\ RateRows[1].num = 20 * RateRows[1].den
  /\ RateRows[5].num = 100 * RateRows[5].den

====
